---- MODULE Spec2Model ----
(***************************************************************************)
(* Model of zap_foil: the foil table (models.py), the command handlers of  *)
(* zap_foil.py acting on it and on the ledger, and the offline batch       *)
(* allocator create_batch_spec.py.                                          *)
(*                                                                         *)
(* A foil's id, seed and ledger address are all its position in the table. *)
(* The ledger kept per address is what the handlers read of it: the asset  *)
(* balance, the number of transactions in the address history and the      *)
(* oldest of them (the last entry of the history page the node returns,    *)
(* newest first).                                                          *)
(***************************************************************************)
EXTENDS Integers, Sequences, FiniteSets, TLC

\* ---------------------------------------------------------------- bounds
MaxFoils == 2          \* rows the create command may put in the table
MaxBatchSize == 2      \* largest BATCHSIZE argument tried
MaxBatchCount == 2     \* largest BATCHCOUNT argument tried
MaxTicks == 1          \* clock advances
MaxEnv == 2            \* ledger events not caused by the handlers
SenderFunds == 10      \* largest operator balance at the start

\* ------------------------------------------------------ program constants
TESTNET_ASSETID == "CgUrFtinLXEbJwJVjwwcppk4Vpz1nMmR3H5cQaDcUcfe"
MAINNET_ASSETID == "9R3iLi4qGLVWKc16Tg98gmRvgg1usGEYd7SgC1W5D6HB"
OTHER_ASSETID == "other"

EXIT_SEED_INVALID == 10
EXIT_BALANCE_INSUFFICIENT == 11
EXIT_EXPIRY_INVALID == 12
EXIT_INVALID_RECIPIENT == 13
EXIT_TOO_MANY_TXS == 14
EXIT_NOT_TRANSFER_ASSET == 15
EXIT_UNRECOGNISED_ASSET_ID == 16
EXIT_WRONG_RECIPIENT == 17
\* how a command ended: sys.exit(code), a return from the handler, or an
\* exception that nothing catches (Python then exits with status 1)
Exit(code) == [code |-> code, raised |-> ""]
Returned == [code |-> 0, raised |-> ""]
Raised(exception) == [code |-> 1, raised |-> exception]

two_months == 60 * 60 * 24 * 30 * 2
FUND_TX_FEE == 1
TX_PAGE_LIMIT == 100
FIRST_BATCH == 1000
TRANSFER_TYPE == 4
DATA_TYPE == 12

\* the asset the run works with (testnet unless --mainnet) and its
\* sponsored fee as the node reports it
assetid == TESTNET_ASSETID
get_asset_fee == 1

\* Python's None, and the truth value of an Optional integer
None == -1
Truthy(x) == x # None /\ x # 0

\* ------------------------------------------------------------- the clock
Now0 == 1000
TickStep == 60 * 60 * 24
\* milliseconds past the second in a ledger timestamp
StampMs == 500

\* ---------------------------------------------------------- input ranges
Amounts == {3}
DepositAmount == 1
ExpiryArgs == {"", "1days", "abc"}
Addrs == 1 .. MaxFoils
\* the operator starts with funds for two foils, their fees and a retry,
\* or with half of that
SenderStart == {SenderFunds \div 2, SenderFunds}
\* the recipient field of a transfer that names an alias or another account
OTHER_RECIPIENT == MaxFoils + 1

Min(a, b) == IF a < b THEN a ELSE b

VARIABLES
    db,             \* the committed foils table, in id order
    balance,        \* ledger: asset balance of each foil address
    ledger,         \* ledger: history of each foil address
    sender_balance, \* ledger: asset balance of the operator account
    now,            \* time.time()
    env_steps,      \* ledger events so far
    fund_log,       \* per address, the amounts the funding handler sent it
    last,           \* the last command run, its arguments and its result
    alloc,          \* the allocator script's variables
    codes_csv       \* the file codes.csv

vars == <<db, balance, ledger, sender_balance, now, env_steps, fund_log,
          last, alloc, codes_csv>>
main_vars == <<db, balance, ledger, sender_balance, now, env_steps,
               fund_log, last, codes_csv>>

\* ------------------------------------------------------------- models.py
Foil(batch, amount, funding_txid, funding_date, expiry) ==
    [batch |-> batch, amount |-> amount, funding_txid |-> funding_txid,
     funding_date |-> funding_date, expiry |-> expiry]

Ids(d) == [i \in 1 .. Len(d) |-> i]

get_batch(d, batch) ==
    SelectSeq(Ids(d), LAMBDA i : d[i].batch = batch)

get_batches_starting_at(d, batch) ==
    SelectSeq(Ids(d), LAMBDA i : d[i].batch >= batch)

get_batches_between(d, batch_start, batch_end) ==
    SelectSeq(Ids(d), LAMBDA i : d[i].batch >= batch_start
                                 /\ d[i].batch <= batch_end)

RECURSIVE ScanBatch(_, _)
ScanBatch(d, batch) ==
    IF get_batch(d, batch) = <<>> THEN batch ELSE ScanBatch(d, batch + 1)

next_batch_idByCount(d) == FIRST_BATCH + Len(d)

next_batch_id(d) == ScanBatch(d, FIRST_BATCH)

\* ------------------------------------------------------------ the ledger
NoTx == [id |-> None, type |-> None, assetId |-> "", recipient |-> None,
         amount |-> None, timestamp |-> None]

Tx(id, type, asset, recipient, amount, t) ==
    [id |-> id, type |-> type, assetId |-> asset, recipient |-> recipient,
     amount |-> amount, timestamp |-> t]

\* the id of the next transaction in the history of address a
TxId(l, a) == a * 1000 + l[a].n + 1

\* count further transactions into the history of address a
AddTx(l, a, tx, count) ==
    [l EXCEPT ![a] = [n |-> l[a].n + count,
                      first |-> IF l[a].n = 0 THEN tx ELSE l[a].first]]

Stamp(t) == t * 1000 + StampMs

\* The record of the command that made the present state: its arguments,
\* how it ended, the transfers it submitted (address of the foil, payee
\* and amount, in order), the foils it skipped, and the table and ledger
\* it started from. Anything that happens after the command leaves Idle.
Pre == [db |-> db, balance |-> balance, sender_balance |-> sender_balance]
Ran(cmd, args, outcome, sent, skipped) ==
    [cmd |-> cmd, args |-> args, outcome |-> outcome, sent |-> sent,
     skipped |-> skipped, pre |-> Pre]
NoArgs == [batch |-> None]
Idle == [cmd |-> "none", args |-> NoArgs, outcome |-> Returned,
         sent |-> <<>>, skipped |-> <<>>,
         pre |-> [db |-> <<>>, balance |-> [a \in Addrs |-> 0],
                  sender_balance |-> 0]]

AllocIdle == [pc |-> "idle"]

\* codes.csv before any export has written it
NoFile == [header |-> <<>>, rows |-> <<>>]

MainInit ==
    /\ db = <<>>
    /\ balance = [a \in Addrs |-> 0]
    /\ ledger = [a \in Addrs |-> [n |-> 0, first |-> NoTx]]
    /\ sender_balance \in SenderStart
    /\ now = Now0
    /\ env_steps = 0
    /\ fund_log = [a \in Addrs |-> <<>>]
    /\ last = Idle
    /\ codes_csv = NoFile

\* ------------------------------------------------------------ create_run
RECURSIVE NewRows(_, _, _)
NewRows(batch, batchcount, batchsize) ==
    IF batchcount = 0 THEN <<>>
    ELSE [i \in 1 .. batchsize |-> Foil(batch, None, None, None, None)]
         \o NewRows(batch + 1, batchcount - 1, batchsize)

create_run(batchsize, batchcount) ==
    /\ Len(db) + batchsize * batchcount <= MaxFoils
    /\ db' = db \o NewRows(next_batch_id(db), batchcount, batchsize)
    /\ last' = Ran("create", [batchsize |-> batchsize,
                               batchcount |-> batchcount],
                    Returned, <<>>, <<>>)
    /\ UNCHANGED <<balance, ledger, sender_balance, now, env_steps,
                   fund_log, alloc, codes_csv>>

\* --------------------------------------------------------------- csv_run
\* A line of codes.csv is the sequence of the fields its commas separate;
\* no value the handler writes holds a comma (the seed is a quoted list of
\* words separated by spaces). A field carries the column it was formatted
\* from and the value written.
Field(column, value) == [column |-> column, value |-> value]

CsvHeader(seeds) ==
    IF seeds THEN <<"batch", "seed">>
    ELSE <<"batch", "address", "amount", "funding_txid", "funding_date">>

CsvRow(d, i, seeds) ==
    <<Field("batch", d[i].batch)>>
    \o IF seeds THEN <<Field("seed", i)>>
       ELSE <<Field("address", i), Field("amount", d[i].amount),
              Field("funding_txid", d[i].funding_txid),
              Field("funding_date", d[i].funding_date)>>

csv_run(batch, seeds) ==
    LET foils == get_batches_starting_at(db, batch) IN
    /\ codes_csv' = [header |-> CsvHeader(seeds),
                     rows |-> [k \in 1 .. Len(foils) |->
                                  CsvRow(db, foils[k], seeds)]]
    /\ last' = Ran("csv", [batch |-> batch, seeds |-> seeds],
                    Returned, <<>>, <<>>)
    /\ UNCHANGED <<db, balance, ledger, sender_balance, now, env_steps,
                   fund_log, alloc>>

\* ----------------------------------------------------------- environment
Tick ==
    /\ now < Now0 + MaxTicks * TickStep
    /\ now' = now + TickStep
    /\ last' = Idle
    /\ UNCHANGED <<db, balance, ledger, sender_balance, env_steps,
                   fund_log, alloc, codes_csv>>

\* someone other than the funding handler pays the asset to a foil address,
\* naming it by address or by alias
Deposit(a, recipient) ==
    /\ a <= Len(db)
    /\ env_steps < MaxEnv
    /\ env_steps' = env_steps + 1
    /\ balance' = [balance EXCEPT ![a] = @ + DepositAmount]
    /\ ledger' = AddTx(ledger, a,
                       Tx(TxId(ledger, a), TRANSFER_TYPE, assetid, recipient,
                          DepositAmount, Stamp(now)), 1)
    /\ last' = Idle
    /\ UNCHANGED <<db, sender_balance, now, fund_log, alloc, codes_csv>>

\* transactions that move none of the asset appear in a foil address's
\* history: count of them, all data transactions or all transfers of
\* another asset
Unrelated(a, type, count) ==
    /\ a <= Len(db)
    /\ env_steps < MaxEnv
    /\ ledger[a].n < TX_PAGE_LIMIT
    /\ env_steps' = env_steps + 1
    /\ ledger' = AddTx(ledger, a,
                       Tx(TxId(ledger, a), type,
                          IF type = TRANSFER_TYPE THEN OTHER_ASSETID ELSE "",
                          IF type = TRANSFER_TYPE THEN a ELSE None,
                          1, Stamp(now)), count)
    /\ last' = Idle
    /\ UNCHANGED <<db, balance, sender_balance, now, fund_log, alloc,
                   codes_csv>>

\* the holder of a foil spends what is on it
Redeem(a) ==
    /\ a <= Len(db)
    /\ env_steps < MaxEnv
    /\ balance[a] > 0
    /\ env_steps' = env_steps + 1
    /\ balance' = [balance EXCEPT ![a] = 0]
    /\ ledger' = AddTx(ledger, a,
                       Tx(TxId(ledger, a), TRANSFER_TYPE, assetid,
                          OTHER_RECIPIENT, balance[a], Stamp(now)), 1)
    /\ last' = Idle
    /\ UNCHANGED <<db, sender_balance, now, fund_log, alloc, codes_csv>>

\* ----------------------------------------------------------------- _fund
\* _check_mnemonic: the seed is a valid phrase or the operator answers the
\* prompt with y ("accepted"), or the operator does not ("rejected")
SeedAnswers == {"accepted", "rejected"}
_check_mnemonic(seed) ==
    IF seed = "rejected" THEN Exit(EXIT_SEED_INVALID) ELSE Returned

_create_pwaddr(sender, required_funds) ==
    IF sender < required_funds THEN Exit(EXIT_BALANCE_INSUFFICIENT)
    ELSE Returned

\* the --expiry strings tried: what re.search(r"(\d+)days") and int() make
\* of each (None where there is no match, or int() raises)
ExpiryDays(provided_expiry) ==
    IF provided_expiry = "1days" THEN 1 ELSE None
ExpiryInt(provided_expiry) ==
    IF provided_expiry = "10" THEN 10 ELSE None

\* the expiry time of a run started at date, None for exit EXPIRY_INVALID
ParseExpiry(provided_expiry, date) ==
    IF provided_expiry = "" THEN date + two_months
    ELSE IF ExpiryDays(provided_expiry) # None
         THEN date + ExpiryDays(provided_expiry) * 60 * 60 * 24
    ELSE IF ExpiryInt(provided_expiry) # None
         THEN date + ExpiryInt(provided_expiry)
    ELSE None

\* what a handler works on: the table, the ledger and the record of the run
Work(d, b, l, s, fl) ==
    [db |-> d, balance |-> b, ledger |-> l, sender |-> s, fund_log |-> fl,
     sent |-> <<>>, skipped |-> <<>>, outcome |-> Returned]

FundSkipsOnBalanceOnly(foil, bal) == bal > 0

\* the funding handler skips a foil that has a funding_txid or a balance
FundSkips(foil, bal) == Truthy(foil.funding_txid) \/ bal > 0

\* the row of a foil once the transfer to it is made
FundedRow(foil, txid, expiry, t) ==
    [foil EXCEPT !.expiry = expiry, !.funding_date = t,
                 !.funding_txid = txid]

\* sender.sendAsset yields no transaction id when the network fails (fail
\* names the foil address at which it does), when the amount is not
\* positive or when the operator cannot pay amount and fee
FundSendFails(st, a, amount, fail) ==
    fail = a \/ amount <= 0 \/ st.sender < amount + FUND_TX_FEE

RECURSIVE FundLoop(_, _, _, _, _, _)
FundLoop(foils, st, amount, expiry, t, fail) ==
    IF foils = <<>> THEN st
    ELSE
    LET a == Head(foils)
        foil == st.db[a]
    IN  IF FundSkips(foil, st.balance[a])
        THEN FundLoop(Tail(foils),
                      [st EXCEPT !.skipped = Append(@, a)],
                      amount, expiry, t, fail)
        ELSE IF FundSendFails(st, a, amount, fail)
        THEN [st EXCEPT !.outcome = Raised("KeyError")]
        ELSE FundLoop(Tail(foils),
                 [st EXCEPT
                    !.sender = @ - (amount + FUND_TX_FEE),
                    !.balance[a] = @ + amount,
                    !.ledger = AddTx(@, a,
                                 Tx(TxId(st.ledger, a), TRANSFER_TYPE,
                                    assetid, a, amount, Stamp(t)), 1),
                    !.fund_log[a] = Append(@, amount),
                    !.db[a] = FundedRow(foil, TxId(st.ledger, a), expiry, t),
                    !.sent = Append(@, [addr |-> a, to |-> a,
                                        amount |-> amount])],
                 amount, expiry, t, fail)

_fund(st, seed, batch, amount, provided_expiry, required_funds, t, fail) ==
    IF _check_mnemonic(seed) # Returned
    THEN [st EXCEPT !.outcome = _check_mnemonic(seed)]
    ELSE IF _create_pwaddr(st.sender, required_funds) # Returned
    THEN [st EXCEPT !.outcome = _create_pwaddr(st.sender, required_funds)]
    ELSE IF ParseExpiry(provided_expiry, t) = None
    THEN [st EXCEPT !.outcome = Exit(EXIT_EXPIRY_INVALID)]
    ELSE FundLoop(get_batch(st.db, batch), st, amount,
                  ParseExpiry(provided_expiry, t), t, fail)

\* the funds a batch is taken to need: the amount once for each of its foils
RequiredFunds(d, batch, amount) == Len(get_batch(d, batch)) * amount

\* a handler's work becomes the state
Commit(st, cmd, args) ==
    /\ db' = st.db
    /\ balance' = st.balance
    /\ ledger' = st.ledger
    /\ sender_balance' = st.sender
    /\ fund_log' = st.fund_log
    /\ last' = Ran(cmd, args, st.outcome, st.sent, st.skipped)
    /\ UNCHANGED <<now, env_steps, alloc, codes_csv>>

Start == Work(db, balance, ledger, sender_balance, fund_log)

\* -------------------------------------------------------------- fund_run
fund_run(batch, amount, provided_expiry, seed, fail) ==
    Commit(_fund(Start, seed, batch, amount, provided_expiry,
                 RequiredFunds(db, batch, amount), now, fail),
           "fund",
           [batch |-> batch, amount |-> amount, expiry |-> provided_expiry,
            seed |-> seed])

\* ----------------------------------------------------- fund_multiple_run
\* batch_spec is the plan file: a sequence of <<batch, amount>>; seeds gives
\* the result of _check_mnemonic at each call of _fund
RECURSIVE FundBatches(_, _, _, _, _, _)
FundBatches(batch_spec, seeds, st, provided_expiry, t, fail) ==
    IF batch_spec = <<>> \/ st.outcome # Returned THEN st
    ELSE FundBatches(Tail(batch_spec), Tail(seeds),
             _fund(st, Head(seeds), Head(batch_spec)[1], Head(batch_spec)[2],
                   provided_expiry,
                   RequiredFunds(st.db, Head(batch_spec)[1],
                                 Head(batch_spec)[2]),
                   t, fail),
             provided_expiry, t, fail)

fund_multiple_run(batch_spec, provided_expiry, seeds, fail) ==
    Commit(FundBatches(batch_spec, seeds, Start, provided_expiry, now, fail),
           "fund_multiple",
           [batch_spec |-> batch_spec, expiry |-> provided_expiry,
            seeds |-> seeds])

\* the batch numbers in the table
BatchIds == {db[i].batch : i \in 1 .. Len(db)}

\* the plan files tried: one batch, or two consecutive batches as the
\* allocator lists them, each with an amount
Plans == {<<<<b, v>>>> : b \in BatchIds, v \in Amounts}
         \cup {<<<<b, v1>>, <<b + 1, v2>>>> :
                   b \in {c \in BatchIds : c + 1 \in BatchIds},
                   v1 \in Amounts, v2 \in Amounts}

\* the operator's answers over n calls of _fund: all accepted, or rejected
\* at call k
SeedRuns(n) == {[i \in 1 .. n |-> IF i = k THEN "rejected" ELSE "accepted"] :
                   k \in 0 .. n}

\* the places a network failure is tried at: nowhere, or at one foil
FailAt == 0 .. Len(db)

\* the histories that appear without moving the asset: <<type, count>>
UnrelatedKinds == {<<DATA_TYPE, 1>>, <<TRANSFER_TYPE, 1>>,
                   <<DATA_TYPE, TX_PAGE_LIMIT>>}

\* ------------------------------------------------------------ sweep_run
\* argparse type=bool: bool() of the IGNORE_EXPIRY string
ParseBool(arg) == arg # ""
IgnoreArgs == {"", "False", "True"}

\* pw.validateAddress on the RECIPIENT strings tried
RecipientArgs == {"recipient", "bad"}
validateAddress(recipient) == recipient = "recipient"

\* the sweep handler takes up a foil when told to ignore expiry or when the
\* foil has an expiry that date has reached
SweepTakes(ignore_expiry, foil, date) ==
    ignore_expiry \/ (Truthy(foil.expiry) /\ date >= foil.expiry)

\* addr.sendAsset yields no transaction when the amount is not positive
SweepSendFails(amount) == amount <= 0

\* addr_bound: the local variable addr has been assigned
RECURSIVE SweepLoop(_, _, _, _, _, _, _)
SweepLoop(foils, st, recipient, ignore_expiry, asset_fee, date, addr_bound) ==
    IF foils = <<>> THEN st
    ELSE
    LET a == Head(foils)
        foil == st.db[a]
        bal == st.balance[a]
    IN  IF SweepTakes(ignore_expiry, foil, date)
        THEN IF bal = 0
             THEN SweepLoop(Tail(foils),
                            [st EXCEPT !.skipped = Append(@, a)],
                            recipient, ignore_expiry, asset_fee, date, TRUE)
             ELSE IF SweepSendFails(bal - asset_fee)
             THEN [st EXCEPT !.outcome = Raised("TypeError")]
             ELSE SweepLoop(Tail(foils),
                      [st EXCEPT
                         !.balance[a] = 0,
                         !.ledger = AddTx(@, a,
                                      Tx(TxId(st.ledger, a), TRANSFER_TYPE,
                                         assetid, OTHER_RECIPIENT,
                                         bal - asset_fee, Stamp(date)), 1),
                         !.sent = Append(@, [addr |-> a, to |-> recipient,
                                             amount |-> bal - asset_fee])],
                      recipient, ignore_expiry, asset_fee, date, TRUE)
        ELSE IF addr_bound
             THEN SweepLoop(Tail(foils),
                            [st EXCEPT !.skipped = Append(@, a)],
                            recipient, ignore_expiry, asset_fee, date,
                            addr_bound)
             ELSE [st EXCEPT !.outcome = Raised("UnboundLocalError")]

sweep_run(recipient, batch_start, batch_end, ignore_arg) ==
    Commit(IF ~validateAddress(recipient)
           THEN [Start EXCEPT !.outcome = Exit(EXIT_INVALID_RECIPIENT)]
           ELSE SweepLoop(get_batches_between(db, batch_start, batch_end),
                          Start, recipient, ParseBool(ignore_arg),
                          get_asset_fee, now, FALSE),
           "sweep",
           [recipient |-> recipient, batch_start |-> batch_start,
            batch_end |-> batch_end, ignore_expiry |-> ignore_arg])

\* -------------------------------------------- fill_missing_fund_data_run
\* the page of the address history the node returns holds at most
\* TX_PAGE_LIMIT transactions
PageLen(l, a) == Min(l[a].n, TX_PAGE_LIMIT)

\* int(tx["timestamp"] / 1000)
StampSeconds(timestamp) == timestamp \div 1000

\* the exit a history makes the handler take, Returned when it passes
ReconCheck(l, a) ==
    LET tx == l[a].first
    IN  IF PageLen(l, a) >= TX_PAGE_LIMIT THEN Exit(EXIT_TOO_MANY_TXS)
        ELSE IF PageLen(l, a) = 0 THEN Raised("IndexError")
        ELSE IF tx.type # TRANSFER_TYPE THEN Exit(EXIT_NOT_TRANSFER_ASSET)
        ELSE IF tx.assetId \notin {MAINNET_ASSETID, TESTNET_ASSETID}
             THEN Exit(EXIT_UNRECOGNISED_ASSET_ID)
        ELSE IF tx.recipient # a THEN Exit(EXIT_WRONG_RECIPIENT)
        ELSE Returned

ReconRowWithoutAmount(foil, tx) ==
    [foil EXCEPT !.expiry = StampSeconds(tx.timestamp) + two_months,
                 !.funding_date = StampSeconds(tx.timestamp),
                 !.funding_txid = tx.id]

ReconRow(foil, tx) ==
    [foil EXCEPT !.expiry = StampSeconds(tx.timestamp) + two_months,
                 !.funding_date = StampSeconds(tx.timestamp),
                 !.funding_txid = tx.id,
                 !.amount = tx.amount]

ReconAbortCommits(st, session, outcome) ==
    [st EXCEPT !.outcome = outcome, !.db = session]

\* sys.exit inside the loop: the process ends before db_session.commit()
ReconAbort(st, session, outcome) == [st EXCEPT !.outcome = outcome]

\* session: the rows as the handler has changed them, not yet committed
RECURSIVE ReconLoop(_, _, _)
ReconLoop(foils, st, session) ==
    IF foils = <<>> THEN [st EXCEPT !.db = session]
    ELSE
    LET a == Head(foils)
    IN  IF Truthy(session[a].funding_txid)
        THEN ReconLoop(Tail(foils), [st EXCEPT !.skipped = Append(@, a)],
                       session)
        ELSE IF ReconCheck(st.ledger, a) # Returned
        THEN ReconAbort(st, session, ReconCheck(st.ledger, a))
        ELSE ReconLoop(Tail(foils), st,
                       [session EXCEPT
                          ![a] = ReconRow(@, st.ledger[a].first)])

fill_missing_fund_data_run(batch_start, batch_end) ==
    Commit(ReconLoop(get_batches_between(db, batch_start, batch_end),
                     Start, db),
           "fill_missing_fund_data",
           [batch_start |-> batch_start, batch_end |-> batch_end])

\* -------------------------------------------------- create_batch_spec.py
batch_size == 10
zap_cents == 100
clump_size == 10
tx_fee == 1

\* the <<percent, n>> of the inputs tried at which the double product
\* percent/100.0 * n falls below the whole number it stands for, so that
\* int() gives one less: 70/100.0 * 90 is 62.99999999999999
FloatLoss == {<<70, 90>>}

\* int(percent/100.0 * n)
TruncShare(percent, n) ==
    IF <<percent, n>> \in FloatLoss THEN (percent * n) \div 100 - 1
    ELSE (percent * n) \div 100

\* the first loop: <<percent, value, num, total_value>> for each allocation
CalcAllocations(batch_allocations, batch_count) ==
    [i \in 1 .. Len(batch_allocations) |->
        LET percent == batch_allocations[i][1]
            value == batch_allocations[i][2]
            num == TruncShare(percent, batch_count)
        IN  <<percent, value, num, value * num * batch_size>>]

RECURSIVE SumTotals(_)
SumTotals(calc) ==
    IF calc = <<>> THEN 0 ELSE Head(calc)[4] + SumTotals(Tail(calc))

num_per_clump(percent) == TruncShare(percent, clump_size)

\* the second loop: the values of one clump
RECURSIVE BuildClumps(_)
BuildClumps(calc) ==
    IF calc = <<>> THEN <<>>
    ELSE [i \in 1 .. num_per_clump(Head(calc)[1]) |-> Head(calc)[2]]
         \o BuildClumps(Tail(calc))

ClumpValueNoWrap(clumps, current_clump_index) ==
    clumps[Min(current_clump_index, Len(clumps) - 1) + 1]

\* clumps[current_clump_index % len(clumps)]
ClumpValue(clumps, current_clump_index) ==
    clumps[(current_clump_index % Len(clumps)) + 1]

\* batch_zap of the last loop in cents: value/zap_cents * batch_size
BatchCents(value) == value * batch_size

\* the ranges and allocations tried
BatchStarts == {1202}
BatchCounts == {10, 15, 20, 90, 150}
Allocations == {<<<<80, 5>>, <<10, 10>>, <<10, 20>>>>,
                <<<<70, 5>>, <<30, 10>>>>,
                <<<<50, 5>>, <<30, 10>>>>,
                <<<<75, 5>>, <<25, 10>>>>,
                <<<<5, 5>>, <<5, 10>>>>}

AllocStart(batch_start, batch_end, batch_allocations) ==
    [pc |-> "allocations",
     batch_start |-> batch_start, batch_end |-> batch_end,
     batch_allocations |-> batch_allocations,
     batch_count |-> batch_end - (batch_start - 1),
     batch_allocations_calc |-> <<>>, total_zap |-> 0,
     clumps |-> <<>>, batches |-> <<>>,
     current_batch |-> batch_start, current_clump_index |-> 0,
     total_index |-> 1, created_cents |-> 0]

AllocInit ==
    alloc \in {AllocStart(batch_start, batch_start + n - 1, a) :
                  batch_start \in BatchStarts, n \in BatchCounts,
                  a \in Allocations}

AllocCalc ==
    /\ alloc.pc = "allocations"
    /\ alloc' = [alloc EXCEPT
          !.batch_allocations_calc =
              CalcAllocations(alloc.batch_allocations, alloc.batch_count),
          !.total_zap =
              SumTotals(CalcAllocations(alloc.batch_allocations,
                                        alloc.batch_count)),
          !.pc = "clumps"]
    /\ UNCHANGED main_vars

AllocClumps ==
    /\ alloc.pc = "clumps"
    /\ alloc' = [alloc EXCEPT
          !.clumps = BuildClumps(alloc.batch_allocations_calc),
          !.pc = "batches"]
    /\ UNCHANGED main_vars

\* one turn of the while loop, or its end
AllocBatch ==
    /\ alloc.pc = "batches"
    /\ alloc' =
         IF alloc.current_batch > alloc.batch_end
         THEN [alloc EXCEPT !.pc = "total"]
         ELSE IF alloc.clumps = <<>>
         THEN [alloc EXCEPT !.pc = "ZeroDivisionError"]
         ELSE [alloc EXCEPT
                 !.batches = Append(@,
                     <<alloc.current_batch,
                       ClumpValue(alloc.clumps, alloc.current_clump_index)
                           * zap_cents + tx_fee>>),
                 !.current_clump_index = @ + 1,
                 !.current_batch = @ + 1]
    /\ UNCHANGED main_vars

\* one turn of the last loop, or its end
AllocTotal ==
    /\ alloc.pc = "total"
    /\ alloc' =
         IF alloc.total_index > Len(alloc.batches)
         THEN [alloc EXCEPT !.pc = "done"]
         ELSE [alloc EXCEPT
                 !.created_cents =
                     @ + BatchCents(alloc.batches[alloc.total_index][2]),
                 !.total_index = @ + 1]
    /\ UNCHANGED main_vars

\* ------------------------------------------------------------ the inputs
Create == \E batchsize \in 1 .. MaxBatchSize, batchcount \in 1 .. MaxBatchCount :
              create_run(batchsize, batchcount)

\* arguments that cannot change what the run does are tried with one value
Fund == \E batch \in BatchIds, amount \in Amounts,
           provided_expiry \in ExpiryArgs, seed \in SeedAnswers,
           fail \in FailAt :
            /\ seed = "rejected" => provided_expiry = "" /\ fail = 0
            /\ fail # 0 => db[fail].batch = batch
            /\ fund_run(batch, amount, provided_expiry, seed, fail)

FundMultiple == \E batch_spec \in Plans, provided_expiry \in ExpiryArgs,
                   fail \in FailAt :
                 \E seeds \in SeedRuns(Len(batch_spec)) :
                    /\ fail # 0 => \E i \in 1 .. Len(batch_spec) :
                                      db[fail].batch = batch_spec[i][1]
                    /\ fund_multiple_run(batch_spec, provided_expiry, seeds,
                                         fail)

\* a funding run that nothing stops
FundAll == \E batch \in BatchIds, amount \in Amounts,
              provided_expiry \in {"", "1days"} :
               fund_run(batch, amount, provided_expiry, "accepted", 0)

Sweep == \E recipient \in RecipientArgs, batch_start \in BatchIds,
            batch_end \in BatchIds, ignore_arg \in IgnoreArgs :
             /\ recipient = "bad" => ignore_arg = "" /\ batch_start = batch_end
             /\ sweep_run(recipient, batch_start, batch_end, ignore_arg)

Recon == \E batch_start \in BatchIds, batch_end \in BatchIds :
             fill_missing_fund_data_run(batch_start, batch_end)

Pay == \E a \in Addrs : Deposit(a, a)

Spend == \E a \in Addrs : Redeem(a)

Ledger == \E a \in Addrs :
              \/ Deposit(a, OTHER_RECIPIENT)
              \/ \E k \in UnrelatedKinds : Unrelated(a, k[1], k[2])

\* a create command that is given nothing to create
CreateNone == \E batchsize \in 0 .. MaxBatchSize,
                 batchcount \in 0 .. MaxBatchCount :
                  /\ batchsize * batchcount = 0
                  /\ create_run(batchsize, batchcount)

\* the default starting batch, and each batch up to the next free one
CsvBatches == {0} \cup (FIRST_BATCH .. next_batch_id(db))

Export == \E batch \in CsvBatches, seeds \in BOOLEAN : csv_run(batch, seeds)

Init == MainInit /\ alloc = AllocIdle

\* ---------------------------------------------------- the specifications
\* funding: the table is created and funded while foils are paid and spent
NextFund == Create \/ Fund \/ FundMultiple \/ Pay \/ Spend
SpecFund == Init /\ [][NextFund]_vars

\* sweeping: funded and paid foils are swept as time passes
NextSweep == Create \/ FundAll \/ Pay \/ Tick \/ Sweep
SpecSweep == Init /\ [][NextSweep]_vars

\* reconciliation: foils with any history are reconciled
NextRecon == Create \/ FundAll \/ Pay \/ Ledger \/ Recon
SpecRecon == Init /\ [][NextRecon]_vars

\* export: the table is created and funded, and exported at any point
NextExport == Create \/ CreateNone \/ FundAll \/ Pay \/ Export
SpecExport == Init /\ [][NextExport]_vars

\* the allocator script, run on each range and allocation
InitAlloc == MainInit /\ sender_balance = SenderFunds /\ AllocInit
NextAlloc == AllocCalc \/ AllocClumps \/ AllocBatch \/ AllocTotal
SpecAlloc == InitAlloc /\ [][NextAlloc]_vars

\* ======================================================== funding claims
Funded(foil) == Truthy(foil.funding_txid)
SentTo(run) == {run.sent[k].addr : k \in 1 .. Len(run.sent)}
IsFunding(run) == run.cmd \in {"fund", "fund_multiple"}

\* a step of the funding handler: it leaves every row that was funded as
\* it was and sends nothing to its foil, and when it runs on the batch that
\* the funding run before it completed on, it sends nothing at all
C1_Step ==
    IsFunding(last') =>
        /\ \A i \in 1 .. Len(db) :
              Funded(db[i]) => db'[i] = db[i] /\ i \notin SentTo(last')
        /\ (/\ last.cmd = "fund"
            /\ last'.cmd = "fund"
            /\ last.outcome = Returned
            /\ last'.args.batch = last.args.batch) => last'.sent = <<>>

\* C1: over any sequence of funding runs, completed or aborted by a
\* transfer failure, no foil receives more than one funding transfer: a run
\* after a completed run on the batch sends nothing, and a run after an
\* aborted one sends only to foils that were not funded and leaves the
\* funded rows as they were.
C1_FundedOnce ==
    /\ [](\A a \in Addrs : Len(fund_log[a]) <= 1)
    /\ [][C1_Step]_vars

\* a funding run that resumes a batch: a foil of the batch was funded by an
\* earlier run, and this run funds another
C1_Witness ==
    /\ last.cmd = "fund"
    /\ last.sent # <<>>
    /\ \E i \in 1 .. Len(last.pre.db) :
          /\ last.pre.db[i].batch = last.args.batch
          /\ Funded(last.pre.db[i])
          /\ fund_log[i] # <<>>

Unfunded(d, batch) ==
    {i \in 1 .. Len(d) : d[i].batch = batch /\ ~Funded(d[i])}

\* C4: a funding run whose seed is accepted ends with the insufficient
\* balance exit exactly when the operator's balance is below the amount
\* times the number of foils of the batch without funding_txid.
C4_RejectedIffUnfundedShort ==
    (last.cmd = "fund" /\ last.args.seed = "accepted") =>
        ((last.outcome = Exit(EXIT_BALANCE_INSUFFICIENT))
         <=> (last.pre.sender_balance
              < last.args.amount
                * Cardinality(Unfunded(last.pre.db, last.args.batch))))

\* C5: a funding invocation that ends with a precondition failure (seed
\* rejected, balance insufficient) has sent no transfer and changed no row.
C5_FailureBeforeMutation ==
    (/\ IsFunding(last)
     /\ last.outcome \in {Exit(EXIT_SEED_INVALID),
                          Exit(EXIT_BALANCE_INSUFFICIENT)})
    => (last.sent = <<>> /\ db = last.pre.db)

\* C8: every foil the funding handler has funded has its amount set, to the
\* amount that was transferred to it.
C8_FundedHasAmount ==
    \A a \in 1 .. Len(db) :
        fund_log[a] # <<>> => db[a].amount = fund_log[a][1]

\* ========================================================== sweep claims
InRange(d, run) ==
    {i \in 1 .. Len(d) : d[i].batch >= run.args.batch_start
                         /\ d[i].batch <= run.args.batch_end}

\* C2: the sweep handler submits no transfer from a foil whose funding_txid
\* is unset, whatever the batch range, the recipient and the override.
C2_SweepsOnlyFunded ==
    last.cmd = "sweep" => \A a \in SentTo(last) : Funded(db[a])

\* the per-item skip conditions of the two handlers
FundSkipCondition(run, a) ==
    Funded(run.pre.db[a]) \/ run.pre.balance[a] > 0
SweepSkipCondition(run, a) ==
    \/ run.pre.balance[a] = 0
    \/ ~(ParseBool(run.args.ignore_expiry)
         \/ (run.pre.db[a].expiry # None /\ run.pre.db[a].expiry <= now))

\* C3: in a funding or sweep run that no failed transfer ends, a foil that
\* meets a skip condition does not abort the handler, and every foil in
\* scope that meets none is processed, wherever the skipped foil sits.
C3_SkipContinues ==
    /\ (/\ last.cmd = "sweep"
        /\ validateAddress(last.args.recipient)
        /\ last.outcome.raised # "TypeError")
       => /\ last.outcome = Returned
          /\ \A a \in InRange(db, last) :
                ~SweepSkipCondition(last, a) => a \in SentTo(last)
    /\ (/\ last.cmd = "fund"
        /\ last.outcome.code \notin {EXIT_SEED_INVALID,
                                     EXIT_BALANCE_INSUFFICIENT,
                                     EXIT_EXPIRY_INVALID}
        /\ last.outcome.raised # "KeyError")
       => /\ last.outcome = Returned
          /\ \A a \in 1 .. Len(db) :
                (db[a].batch = last.args.batch /\ ~FundSkipCondition(last, a))
                => a \in SentTo(last)

\* the foils the sweep is to take: expired, or all of them when the
\* operator asks to ignore expiry, and holding a balance
SweepEligible(run) ==
    {a \in InRange(db, run) :
        /\ \/ run.args.ignore_expiry = "True"
           \/ (db[a].expiry # None /\ db[a].expiry <= now)
        /\ run.pre.balance[a] # 0}

\* C7: the sweep handler submits a transfer from exactly the foils of the
\* range that are expired (or any, with the override set) and hold a
\* balance, each of the balance less the network fee, to the recipient.
C7_SweepsExactlyEligible ==
    (last.cmd = "sweep" /\ validateAddress(last.args.recipient)) =>
        /\ SentTo(last) = SweepEligible(last)
        /\ \A k \in 1 .. Len(last.sent) :
              /\ last.sent[k].amount
                 = last.pre.balance[last.sent[k].addr] - get_asset_fee
              /\ last.sent[k].to = last.args.recipient

\* ================================================= reconciliation claims
IsRecon(run) == run.cmd = "fill_missing_fund_data"
IntegrityExits == {Exit(EXIT_TOO_MANY_TXS), Exit(EXIT_NOT_TRANSFER_ASSET),
                   Exit(EXIT_UNRECOGNISED_ASSET_ID),
                   Exit(EXIT_WRONG_RECIPIENT)}

\* C6: when the reconciliation handler aborts on an integrity violation,
\* the table is what it was before the run, the rows of earlier foils that
\* passed every check included.
C6_AbortLeavesStore ==
    (IsRecon(last) /\ last.outcome \in IntegrityExits) => db = last.pre.db

\* an aborted run in which a foil earlier in the range had passed
C6_Witness ==
    /\ IsRecon(last)
    /\ last.outcome \in IntegrityExits
    /\ \E a, f \in InRange(db, last) :
          /\ a < f
          /\ ~Funded(last.pre.db[a])
          /\ ReconCheck(ledger, a) = Returned
          /\ ~Funded(last.pre.db[f])
          /\ ReconCheck(ledger, f) = last.outcome

\* a foil the reconciliation is to fill: no funding_txid, and a history of
\* one transaction, a transfer of the asset to the foil's address
OneMatchingTransfer(run, a) ==
    /\ ~Funded(run.pre.db[a])
    /\ ledger[a].n = 1
    /\ ledger[a].first.type = TRANSFER_TYPE
    /\ ledger[a].first.assetId = assetid
    /\ ledger[a].first.recipient = a

\* C10 as stated: after a successful reconciliation run every such foil has
\* funding_txid the transaction's id, funding_date its timestamp, expiry
\* funding_date plus two months and amount its amount.
C10_FilledFromTx ==
    (IsRecon(last) /\ last.outcome = Returned) =>
        \A a \in InRange(db, last) :
            OneMatchingTransfer(last, a) =>
                /\ db[a].funding_txid = ledger[a].first.id
                /\ db[a].funding_date = ledger[a].first.timestamp
                /\ db[a].expiry = db[a].funding_date + two_months
                /\ db[a].amount = ledger[a].first.amount

\* C10 as amended: funding_date is the transaction's millisecond timestamp
\* in whole seconds (divided by 1000, fraction dropped); funding_txid,
\* expiry (funding_date plus two months) and amount are as stated.
C10_FilledFromTxSeconds ==
    (IsRecon(last) /\ last.outcome = Returned) =>
        \A a \in InRange(db, last) :
            OneMatchingTransfer(last, a) =>
                /\ db[a].funding_txid = ledger[a].first.id
                /\ db[a].funding_date * 1000 <= ledger[a].first.timestamp
                /\ ledger[a].first.timestamp < (db[a].funding_date + 1) * 1000
                /\ db[a].expiry = db[a].funding_date + 5184000
                /\ db[a].amount = ledger[a].first.amount

C10_Witness ==
    /\ IsRecon(last)
    /\ last.outcome = Returned
    /\ \E a \in InRange(db, last) : OneMatchingTransfer(last, a)

\* ====================================================== allocator claims
RECURSIVE SumPercent(_)
SumPercent(allocations) ==
    IF allocations = <<>> THEN 0
    ELSE Head(allocations)[1] + SumPercent(Tail(allocations))

\* the batches of the plan that carry the value of allocation i
Assigned(i) ==
    Cardinality({k \in 1 .. Len(alloc.batches) :
                    alloc.batches[k][2]
                    = alloc.batch_allocations[i][2] * zap_cents + tx_fee})

\* the plan's amounts without the fee that each carries, in cents
FaceCents == alloc.created_cents - tx_fee * batch_size * Len(alloc.batches)

\* C9 as stated: for any range and allocations the clump pattern gives each
\* value as many batches as its truncated count, so that the planned total
\* is the sum of value * count * batch_size; 150 batches at (80%,5),
\* (10%,10), (10%,20) give 120, 15 and 15.
C9_CountsMatch ==
    alloc.pc = "done" =>
        /\ \A i \in 1 .. Len(alloc.batch_allocations) :
              Assigned(i) = alloc.batch_allocations_calc[i][3]
        /\ FaceCents = alloc.total_zap * zap_cents

\* the inputs on which the clump pattern is whole: the batch count is a
\* multiple of the clump size, the percentages are multiples of ten that
\* sum to 100 and the values differ
WholeClumps ==
    /\ alloc.batch_count % clump_size = 0
    /\ SumPercent(alloc.batch_allocations) = 100
    /\ \A i \in 1 .. Len(alloc.batch_allocations) :
          alloc.batch_allocations[i][1] % 10 = 0
    /\ \A i, j \in 1 .. Len(alloc.batch_allocations) :
          i # j => alloc.batch_allocations[i][2] # alloc.batch_allocations[j][2]

NoFloatLoss ==
    \A i \in 1 .. Len(alloc.batch_allocations) :
        <<alloc.batch_allocations[i][1], alloc.batch_count>> \notin FloatLoss

\* C9 as amended: on a batch count that is a multiple of the clump size,
\* with percentages that are multiples of ten summing to 100 and values
\* that differ, each value is given percentage * batch_count / 100 batches; where no floating point
\* product falls short this is the script's truncated count and the plan's
\* amounts less the fee sum to value * count * batch_size; 150 batches at
\* (80%,5), (10%,10), (10%,20) give 120, 15 and 15.
C9_CountsMatchWholeClumps ==
    (alloc.pc = "done" /\ WholeClumps) =>
        /\ \A i \in 1 .. Len(alloc.batch_allocations) :
              Assigned(i) * 100
              = alloc.batch_allocations[i][1] * alloc.batch_count
        /\ NoFloatLoss =>
              /\ \A i \in 1 .. Len(alloc.batch_allocations) :
                    Assigned(i) = alloc.batch_allocations_calc[i][3]
              /\ FaceCents = alloc.total_zap * zap_cents
        /\ (/\ alloc.batch_count = 150
            /\ alloc.batch_allocations
               = <<<<80, 5>>, <<10, 10>>, <<10, 20>>>>)
           => <<Assigned(1), Assigned(2), Assigned(3)>> = <<120, 15, 15>>

\* the script's own range and allocations, run to the end
C9_Witness ==
    /\ alloc.pc = "done"
    /\ WholeClumps
    /\ alloc.batch_count = 150
    /\ Len(alloc.batch_allocations) = 3
    /\ Assigned(1) = 120

\* ================================================= batch numbering claims
RowsIn(d, batch) == Cardinality({i \in 1 .. Len(d) : d[i].batch = batch})

\* the smallest batch number from the starting offset that has no rows
SmallestFree(d) ==
    CHOOSE b \in FIRST_BATCH .. FIRST_BATCH + Len(d) :
        /\ RowsIn(d, b) = 0
        /\ \A c \in FIRST_BATCH .. b - 1 : RowsIn(d, c) > 0

\* a step of the create command: the rows there were stay as they were, and
\* the new rows are batchsize rows in each of the batchcount batches that
\* follow the smallest free batch number, none of which had a row
C11_Step ==
    last'.cmd = "create" =>
        LET first == SmallestFree(db)
            batchsize == last'.args.batchsize
            batchcount == last'.args.batchcount
            batches == first .. first + batchcount - 1
        IN  /\ Len(db') = Len(db) + batchsize * batchcount
            /\ \A i \in 1 .. Len(db) : db'[i] = db[i]
            /\ \A i \in Len(db) + 1 .. Len(db') : db'[i].batch \in batches
            /\ \A b \in batches : RowsIn(db, b) = 0
                                  /\ RowsIn(db', b) = batchsize

\* C11: whatever create commands have run, the scan for the next free batch
\* returns the smallest integer from 1000 up that has no rows, and a create
\* command puts batchsize rows in each of batchcount batches numbered
\* consecutively from that result, all of them batches that had no rows
C11_NextFreeBatch ==
    /\ [](next_batch_id(db) = SmallestFree(db))
    /\ [][C11_Step]_vars

\* a create command that found batches in the table and added rows after
\* them
C11_Witness ==
    /\ last.cmd = "create"
    /\ last.pre.db # <<>>
    /\ Len(db) > Len(last.pre.db)
    /\ db[Len(db)].batch = next_batch_id(last.pre.db)
    /\ db[Len(db)].batch > FIRST_BATCH

\* ============================================================ export claims
\* the foils an export starting at a batch has in scope
InScope(d, batch) == {i \in 1 .. Len(d) : d[i].batch >= batch}

\* C12: the export writes one data row for each foil whose batch is at least
\* the starting batch, and with --seeds every data row has exactly one
\* field, the seed
C12_RowPerFoilOneField ==
    last.cmd = "csv" =>
        /\ Len(codes_csv.rows)
           = Cardinality(InScope(last.pre.db, last.args.batch))
        /\ last.args.seeds =>
              \A k \in 1 .. Len(codes_csv.rows) :
                  /\ Len(codes_csv.rows[k]) = 1
                  /\ codes_csv.rows[k][1].column = "seed"

====
